---- MODULE Spec2Model ----
(***************************************************************************)
(* BEASTling's XML assembly (beastling/beastxml.py): one build session of  *)
(* BeastXml.  The document is an element tree; add_taxon_set adds taxon    *)
(* sets through the _taxon_sets cache; validate_ids checks the identifiers *)
(* and references that collect_ids_and_refs gathers, plates included.      *)
(*                                                                         *)
(* A string is a sequence of atoms.  An atom is a run of characters the    *)
(* model never looks inside ("taxa", "tx_", "$(", "language", ...), so     *)
(* concatenation, replace, split and join work on atom sequences as the    *)
(* Python string methods work on characters.                               *)
(*                                                                         *)
(* Spec     a build whose contributors attach taxon sets and elements in   *)
(*          any order, then the closing validate_ids.                      *)
(* RunSpec  a build with add_run followed step by step.                    *)
(* GroupSpec a build whose calibrations range over subsets of the root     *)
(*          set's languages.                                               *)
(***************************************************************************)
EXTENDS Naturals, Sequences, FiniteSets, Bags

VARIABLES
    pc,          \* where the constructor stands: init, root, assembling, done, raised
    validate,    \* BeastXml.__init__'s validate argument
    nodes,       \* self.beast: the element tree, one record per element, in creation order
    taxon_sets,  \* self._taxon_sets: an insertion-ordered dict, as a sequence of <<key, value>>
    error,       \* the exception that ended the session, [type, names]
    call,        \* the operation the last step performed, with its arguments
    groups,      \* history: every [id, label, langs] add_taxon_set registered (line 334)
    ops          \* number of contributor operations performed so far

vars == <<pc, validate, nodes, taxon_sets, error, call, groups, ops>>

---------------------------------------------------------------------------
(* Bounds and program constants *)

\* Contributor operations (elements attached, taxon sets requested) per session.
MaxOps == 2

\* add_taxon_set: "if len(langs) > 3" chooses plate notation.
PlateThreshold == 3

---------------------------------------------------------------------------
(* Strings *)

\* The atoms, in the order Python's string comparison gives them.
Alphabet == <<"$(", ")", ",", "@", "TaxonSet", "a", "b", "c", "d", "e",
              "language", "pfx_", "rate", "taxa", "tx_">>

Rank(ch) == CHOOSE i \in 1..Len(Alphabet) : Alphabet[i] = ch

\* s < t for strings: lexicographic, a proper prefix is smaller.
RECURSIVE StrLess(_, _)
StrLess(s, t) ==
    IF t = <<>> THEN FALSE
    ELSE IF s = <<>> THEN TRUE
    ELSE IF s[1] # t[1] THEN Rank(s[1]) < Rank(t[1])
    ELSE StrLess(Tail(s), Tail(t))

\* str.replace(old, new): every non-overlapping occurrence, left to right.
RECURSIVE Replace(_, _, _)
Replace(s, old, new) ==
    IF Len(s) < Len(old) \/ old = <<>> THEN s
    ELSE IF SubSeq(s, 1, Len(old)) = old
         THEN new \o Replace(SubSeq(s, Len(old) + 1, Len(s)), old, new)
         ELSE <<s[1]>> \o Replace(Tail(s), old, new)

\* str.split(sep) for a one-atom separator: "".split(",") is [""].
RECURSIVE Split(_, _)
Split(s, sep) ==
    IF \A i \in 1..Len(s) : s[i] # sep THEN <<s>>
    ELSE LET i == CHOOSE j \in 1..Len(s) :
                      s[j] = sep /\ \A k \in 1..(j - 1) : s[k] # sep
         IN  <<SubSeq(s, 1, i - 1)>> \o Split(SubSeq(s, i + 1, Len(s)), sep)

\* sep.join(list)
RECURSIVE Join(_, _)
Join(list, sep) ==
    IF list = <<>> THEN <<>>
    ELSE IF Len(list) = 1 THEN list[1]
    ELSE list[1] \o <<sep>> \o Join(Tail(list), sep)

\* '$({0})'.format(var)
Placeholder(var) == <<"$(">> \o var \o <<")">>

\* set(langs)
SetOf(seq) == {seq[i] : i \in 1..Len(seq)}

\* sorted(list(S)) for a set of strings
RECURSIVE SortedList(_)
SortedList(S) ==
    IF S = {} THEN <<>>
    ELSE LET m == CHOOSE x \in S : \A y \in S \ {x} : StrLess(x, y)
         IN  <<m>> \o SortedList(S \ {m})

\* The bag holding each entry of a sequence once per occurrence.
RECURSIVE BagOfSeq(_)
BagOfSeq(seq) ==
    IF seq = <<>> THEN EmptyBag
    ELSE SetToBag({seq[1]}) (+) BagOfSeq(Tail(seq))

---------------------------------------------------------------------------
(* The element tree *)

\* An element: its tag, its parent's index (0 for the root), its attributes in
\* insertion order as <<name, value>> pairs.
Element(tag, parent, attrib) == [tag |-> tag, parent |-> parent, attrib |-> attrib]

\* xml.<tag>(parent, **attrib): a new last child of parent.
SubElement(ns, parent, tag, attrib) == Append(ns, Element(tag, parent, attrib))

\* list(e): the children of element e, in document order.
Children(ns, e) == SelectSeq([i \in 1..Len(ns) |-> i], LAMBDA c : ns[c].parent = e)

\* e.get(name): the attribute's value; the model only reads attributes that exist.
Get(ns, e, name) ==
    LET k == CHOOSE j \in 1..Len(ns[e].attrib) : ns[e].attrib[j][1] = name
    IN  ns[e].attrib[k][2]

\* root.iter(): the elements in document order (depth first, children in order).
RECURSIVE Iter(_, _)
RECURSIVE IterAll(_, _)
Iter(ns, e) == <<e>> \o IterAll(ns, Children(ns, e))
IterAll(ns, cs) ==
    IF cs = <<>> THEN <<>>
    ELSE Iter(ns, cs[1]) \o IterAll(ns, Tail(cs))

---------------------------------------------------------------------------
(* collect_ids_and_refs and validate_ids *)

\* "e in parent_map and parent_map[e].tag == 'plate'"
under_plate(ns, e) == ns[e].parent # 0 /\ ns[ns[e].parent].tag = "plate"

\* The plate branch: one string per value of the plate's range, the plate's
\* placeholder replaced by the value.
plate_values(ns, e, value) ==
    LET plate  == ns[e].parent
        var    == Get(ns, plate, "var")
        range  == Split(Get(ns, plate, "range"), ",")
    IN  [i \in 1..Len(range) |-> Replace(value, Placeholder(var), range[i])]

\* Mutant of registered: the plate branch left out.
registered_without_plate(ns, e, value) == SetToBag({value})

\* The nearest plate among the ancestors of e, 0 if there is none.
RECURSIVE plate_above(_, _)
plate_above(ns, e) ==
    IF ns[e].parent = 0 THEN 0
    ELSE IF ns[ns[e].parent].tag = "plate" THEN ns[e].parent
    ELSE plate_above(ns, ns[e].parent)

\* Mutant of registered: the plate branch taken under any plate, however far above.
registered_below_plate(ns, e, value) ==
    LET plate == plate_above(ns, e)
    IN  IF plate = 0 THEN SetToBag({value})
        ELSE LET var   == Get(ns, plate, "var")
                 range == Split(Get(ns, plate, "range"), ",")
             IN  BagOfSeq([i \in 1..Len(range) |->
                              Replace(value, Placeholder(var), range[i])])

\* What an id or idref attribute adds to its Counter.
registered(ns, e, value) ==
    IF under_plate(ns, e) THEN BagOfSeq(plate_values(ns, e, value))
    ELSE SetToBag({value})

\* "if (attrib not in data) and value.startswith('@')": the reference an attribute
\* that is neither id nor idref adds, the sigil stripped.
sigil_refs(attrib, value) ==
    IF attrib \notin {"id", "idref"} /\ value # <<>> /\ value[1] = "@"
    THEN SetToBag({Tail(value)})
    ELSE EmptyBag

\* Mutant of attribute_data: the plate branch taken for id only, idref verbatim.
attribute_data_idref_verbatim(ns, e, k) ==
    LET attrib == ns[e].attrib[k][1]
        value  == ns[e].attrib[k][2]
    IN  [id    |-> IF attrib = "id" THEN registered(ns, e, value) ELSE EmptyBag,
         idref |-> (IF attrib = "idref" THEN SetToBag({value}) ELSE EmptyBag)
                   (+) sigil_refs(attrib, value)]

\* The body of "for attrib, value in e.items()" for attribute k of element e.
attribute_data(ns, e, k) ==
    LET attrib == ns[e].attrib[k][1]
        value  == ns[e].attrib[k][2]
    IN  [id    |-> IF attrib = "id" THEN registered(ns, e, value) ELSE EmptyBag,
         idref |-> (IF attrib = "idref" THEN registered(ns, e, value) ELSE EmptyBag)
                   (+) sigil_refs(attrib, value)]

RECURSIVE element_data(_, _, _)
element_data(ns, e, k) ==
    IF k > Len(ns[e].attrib) THEN [id |-> EmptyBag, idref |-> EmptyBag]
    ELSE LET here == attribute_data(ns, e, k)
             rest == element_data(ns, e, k + 1)
         IN  [id |-> here.id (+) rest.id, idref |-> here.idref (+) rest.idref]

RECURSIVE collect_over(_, _)
collect_over(ns, order) ==
    IF order = <<>> THEN [id |-> EmptyBag, idref |-> EmptyBag]
    ELSE LET here == element_data(ns, order[1], 1)
             rest == collect_over(ns, Tail(order))
         IN  [id |-> here.id (+) rest.id, idref |-> here.idref (+) rest.idref]

\* data = dict(id=Counter(), idref=Counter()) after the walk over root.iter()
collect_ids_and_refs(ns) == collect_over(ns, Iter(ns, 1))

NoError == [type |-> "none", message |-> "", names |-> {}]

AssertionError == [type |-> "AssertionError", message |-> "", names |-> {}]

ValueError(message, names) == [type |-> "ValueError", message |-> message, names |-> names]

\* Mutant of validate_ids: the check of the references left out.
validate_ids_duplicates_only(ns) ==
    LET data          == collect_ids_and_refs(ns)
        duplicate_ids == {x \in BagToSet(data.id) : CopiesIn(x, data.id) > 1}
    IN  IF duplicate_ids # {}
        THEN ValueError("Duplicate BEASTObject IDs found", duplicate_ids)
        ELSE NoError

\* Mutant of validate_ids: the references checked before the duplicates.
validate_ids_references_first(ns) ==
    LET data          == collect_ids_and_refs(ns)
        duplicate_ids == {x \in BagToSet(data.id) : CopiesIn(x, data.id) > 1}
        bad_refs      == BagToSet(data.idref) \ BagToSet(data.id)
    IN  IF bad_refs # {}
        THEN ValueError("References to missing BEASTObject IDs found", bad_refs)
        ELSE IF duplicate_ids # {}
        THEN ValueError("Duplicate BEASTObject IDs found", duplicate_ids)
        ELSE NoError

\* The exception validate_ids raises on the tree, or NoError.
validate_ids(ns) ==
    LET data          == collect_ids_and_refs(ns)
        duplicate_ids == {x \in BagToSet(data.id) : CopiesIn(x, data.id) > 1}
        bad_refs      == BagToSet(data.idref) \ BagToSet(data.id)
    IN  IF duplicate_ids # {}
        THEN ValueError("Duplicate BEASTObject IDs found", duplicate_ids)
        ELSE IF bad_refs # {}
        THEN ValueError("References to missing BEASTObject IDs found", bad_refs)
        ELSE NoError

---------------------------------------------------------------------------
(* add_taxon_set *)

\* "langs = sorted(list(set(langs)))"
normalize(langs) == SortedList(SetOf(langs))

\* Mutant of assert_langs: the assertion left out.
assert_langs_skipped(langs) == TRUE

\* "assert(langs)": whether the assertion passes.
assert_langs(langs) == langs # <<>>

\* Mutant of cached: the cache never consulted.
cached_never(ts, langs) == 0

\* The first cache entry whose taxa equal langs, 0 if there is none.
cached(ts, langs) ==
    IF \E i \in 1..Len(ts) : ts[i][2] = langs
    THEN CHOOSE i \in 1..Len(ts) :
             ts[i][2] = langs /\ \A j \in 1..(i - 1) : ts[j][2] # langs
    ELSE 0

\* "if len(langs) == 1 and label == langs[0]: label = 'tx_{:}'.format(label)"
taxon_set_id(label, langs) ==
    IF Len(langs) = 1 /\ label = langs[1] THEN <<"tx_">> \o label ELSE label

\* "self._taxon_sets[label] = langs": a dict assignment keeps an existing key's place.
register(ts, label, langs) ==
    IF \E i \in 1..Len(ts) : ts[i][1] = label
    THEN [i \in 1..Len(ts) |-> IF ts[i][1] = label THEN <<label, langs>> ELSE ts[i]]
    ELSE Append(ts, <<label, langs>>)

\* "for lang in langs: xml.taxon(taxonset, attrib={...: lang})"
RECURSIVE explicit_taxa(_, _, _, _)
explicit_taxa(ns, taxonset, langs, attr) ==
    IF langs = <<>> THEN ns
    ELSE explicit_taxa(SubElement(ns, taxonset, "taxon", << <<attr, langs[1]>> >>),
                       taxonset, Tail(langs), attr)

\* The plate branch: one plate under the taxon set, one placeholder taxon under it.
plate_taxa(ns, taxonset, langs, attr) ==
    LET withPlate == SubElement(ns, taxonset, "plate",
                         << <<"var", <<"language">> >>, <<"range", Join(langs, ",")>> >>)
    IN  SubElement(withPlate, Len(withPlate), "taxon",
                   << <<attr, Placeholder(<<"language">>)>> >>)

\* Mutant of use_plate: the comparison off by one.
use_plate_from_threshold(langs) == Len(langs) >= PlateThreshold

\* "if len(langs) > 3"
use_plate(langs) == Len(langs) > PlateThreshold

\* The members under a new taxon set element (lines 326-333).
taxa_elements(ns, taxonset, langs, define_taxa) ==
    LET attr == IF define_taxa THEN "id" ELSE "idref"
    IN  IF use_plate(langs) THEN plate_taxa(ns, taxonset, langs, attr)
        ELSE explicit_taxa(ns, taxonset, langs, attr)

\* add_taxon_set(parent, label, langs, define_taxa) on tree ns and cache ts: the tree
\* and the cache after the call, the exception raised, and whether a set was created.
add_taxon_set(ns, ts, parent, label, langs_in, define_taxa) ==
    LET langs == normalize(langs_in)
        hit   == cached(ts, langs)
        id    == taxon_set_id(label, langs)
        taxonset == SubElement(ns, parent, "taxonset",
                        << <<"id", id>>, <<"spec", <<"TaxonSet">> >> >>)
    IN  IF ~assert_langs(langs)
        THEN [nodes |-> ns, taxon_sets |-> ts, error |-> AssertionError, created |-> {}]
        ELSE IF hit # 0
        THEN [nodes      |-> SubElement(ns, parent, "taxonset", << <<"idref", ts[hit][1]>> >>),
              taxon_sets |-> ts, error |-> NoError, created |-> {}]
        ELSE [nodes      |-> taxa_elements(taxonset, Len(taxonset), langs, define_taxa),
              taxon_sets |-> register(ts, id, langs),
              error      |-> NoError,
              created    |-> {[id |-> id, label |-> label, langs |-> langs]}]

---------------------------------------------------------------------------
(* The inputs of a session *)

\* Language collections a caller passes (config.languages.languages, cal.langs):
\* empty, one member, unsorted with a repeated member at the threshold, unsorted
\* above the threshold.
LangInputs ==
    { <<>>,
      << <<"a">> >>,
      << <<"c">>, <<"a">>, <<"b">>, <<"a">> >>,
      << <<"d">>, <<"c">>, <<"b">>, <<"a">> >> }

\* Labels a caller passes: the root's "taxa", a clade named like its only language,
\* and a clade named like a renamed single-language set.
Labels == { <<"taxa">>, <<"a">>, <<"tx_", "a">> }

\* A value that holds a plate's placeholder twice, "pfx_$(language)$(language)", and
\* what it stands for at the range value b.
Templated == <<"pfx_">> \o Placeholder(<<"language">>) \o Placeholder(<<"language">>)

Substituted == <<"pfx_", "b", "b">>

\* Elements the models, clocks and loggers attach: [tag, attrib].
ElementKinds ==
    { \* ET.SubElement(distribution, "siteModel", {"id": ..., "mutationRate": "@..."})
      [tag |-> "siteModel",
       attrib |-> << <<"id", <<"b">> >>, <<"mutationRate", <<"@">> \o Substituted>> >>],
      \* xml.distribution(self.prior, attrib={"id": ...})
      [tag |-> "distribution", attrib |-> << <<"id", Substituted>> >>],
      \* xml.log(logger, idref=...)
      [tag |-> "log", attrib |-> << <<"idref", Substituted>> >>],
      \* a parameter identified by a plate's placeholder
      [tag |-> "parameter",
       attrib |-> << <<"id", Templated>> >>],
      \* xml.parameter(plate, idref="featureClockRate:%s:$(rate)")
      [tag |-> "parameter",
       attrib |-> << <<"idref", Templated>> >>],
      \* a sigil reference that contains a placeholder
      [tag |-> "log",
       attrib |-> << <<"tree", <<"@">> \o Templated>> >>],
      \* xml.plate(delta, var="rate", range=model.all_rates)
      [tag |-> "plate",
       attrib |-> << <<"var", <<"rate">> >>,
                     <<"range", Join(<< <<"b">>, <<"c">> >>, ",")>> >>] }

\* Where a contributor attaches a taxon set: the root or a distribution (cal_prior).
TaxonSetParents(ns) == {1} \cup {e \in 1..Len(ns) : ns[e].tag = "distribution"}

\* Where a contributor attaches an element: the root, the element made last, a plate.
ElementParents(ns) == {1, Len(ns)} \cup {e \in 1..Len(ns) : ns[e].tag = "plate"}

Call(op, parent, label, langs, define_taxa) ==
    [op |-> op, parent |-> parent, label |-> label, langs |-> langs,
     define_taxa |-> define_taxa]

NoCall == Call("none", 0, <<>>, <<>>, FALSE)

---------------------------------------------------------------------------
(* The session *)

\* BeastXml.__init__ up to the call of build_xml.
Init ==
    /\ pc = "init"
    /\ validate \in BOOLEAN
    /\ nodes = <<>>
    /\ taxon_sets = <<>>
    /\ error = NoError
    /\ call = NoCall
    /\ groups = {}
    /\ ops = 0

\* build_xml: "self.beast = xml.beast(...)".
build_xml_root ==
    /\ pc = "init"
    /\ nodes' = <<Element("beast", 0, << <<"version", <<"2.0">> >> >>)>>
    /\ pc' = "root"
    /\ call' = Call("beast", 0, <<>>, <<>>, FALSE)
    /\ UNCHANGED <<validate, taxon_sets, error, groups, ops>>

\* The state after a call of add_taxon_set that returned r.
taxon_set_added(r) ==
    /\ nodes' = r.nodes
    /\ taxon_sets' = r.taxon_sets
    /\ groups' = groups \cup r.created
    /\ error' = r.error
    /\ pc' = IF r.error = NoError THEN "assembling" ELSE "raised"

\* build_xml: "self.add_taxon_set(self.beast, 'taxa', languages, define_taxa=True)".
root_taxon_set ==
    /\ pc = "root"
    /\ \E langs \in LangInputs :
          /\ taxon_set_added(add_taxon_set(nodes, taxon_sets, 1, <<"taxa">>, langs, TRUE))
          /\ call' = Call("add_taxon_set", 1, <<"taxa">>, langs, TRUE)
    /\ UNCHANGED <<validate, ops>>

\* A contributor's call of add_taxon_set, as add_calibrations makes it:
\* "self.add_taxon_set(cal_prior, taxonsetname, cal.langs)", define_taxa left False.
contribute_taxon_set ==
    /\ pc = "assembling"
    /\ ops < MaxOps
    /\ \E parent \in TaxonSetParents(nodes), label \in Labels, langs \in LangInputs :
          /\ taxon_set_added(add_taxon_set(nodes, taxon_sets, parent, label, langs, FALSE))
          /\ call' = Call("add_taxon_set", parent, label, langs, FALSE)
    /\ ops' = ops + 1
    /\ UNCHANGED validate

\* A contributor attaches one element.
contribute_element ==
    /\ pc = "assembling"
    /\ ops < MaxOps
    /\ \E parent \in ElementParents(nodes), kind \in ElementKinds :
          /\ nodes' = SubElement(nodes, parent, kind.tag, kind.attrib)
          /\ call' = Call("element", parent, <<>>, <<>>, FALSE)
    /\ ops' = ops + 1
    /\ UNCHANGED <<pc, validate, taxon_sets, error, groups>>

\* Mutant of construction_error: build_xml without its closing validate_ids().
construction_error_flag_only(ns, flag) ==
    IF flag THEN validate_ids(ns) ELSE NoError

\* The exception the end of construction raises: build_xml's closing
\* self.validate_ids(), then __init__'s "if validate: self.validate_ids()".
construction_error(ns, flag) ==
    LET atBuild == validate_ids(ns)
    IN  IF atBuild # NoError THEN atBuild
        ELSE IF flag THEN validate_ids(ns)
        ELSE NoError

\* The end of build_xml and of __init__.
finish ==
    /\ pc = "assembling"
    /\ error' = construction_error(nodes, validate)
    /\ pc' = IF error' = NoError THEN "done" ELSE "raised"
    /\ call' = Call("validate_ids", 0, <<>>, <<>>, FALSE)
    /\ UNCHANGED <<validate, nodes, taxon_sets, groups, ops>>

Next ==
    \/ build_xml_root
    \/ root_taxon_set
    \/ contribute_taxon_set
    \/ contribute_element
    \/ finish

Spec == Init /\ [][Next]_vars

TypeOK ==
    /\ pc \in {"init", "root", "assembling", "done", "raised"}
    /\ validate \in BOOLEAN
    /\ ops \in 0..MaxOps
    /\ \A e \in 1..Len(nodes) : nodes[e].parent < e

---------------------------------------------------------------------------
(* What the claims speak of *)

\* The Counters collect_ids_and_refs returns for the session's tree.
Data ==
    IF nodes = <<>> THEN [id |-> EmptyBag, idref |-> EmptyBag]
    ELSE collect_ids_and_refs(nodes)

\* The identifiers defined more than once, the references that no definition answers.
DuplicatesOf(data) == {x \in BagToSet(data.id) : CopiesIn(x, data.id) > 1}

DanglingOf(data) == {x \in BagToSet(data.idref) : CopiesIn(x, data.id) = 0}

DuplicateIds == DuplicatesOf(Data)

DanglingRefs == DanglingOf(Data)

\* The attributes called name, as <<element, position>>.
AttrSites(name) ==
    UNION { { <<e, k>> : k \in {j \in 1..Len(nodes[e].attrib) :
                                    nodes[e].attrib[j][1] = name} } :
            e \in 1..Len(nodes) }

\* The attributes that are neither id nor idref and start with the sigil.
SigilSites ==
    UNION { { <<e, k>> : k \in {j \in 1..Len(nodes[e].attrib) :
                                    /\ nodes[e].attrib[j][1] \notin {"id", "idref"}
                                    /\ nodes[e].attrib[j][2] # <<>>
                                    /\ nodes[e].attrib[j][2][1] = "@"} } :
            e \in 1..Len(nodes) }

ValueAt(site) == nodes[site[1]].attrib[site[2]][2]

IsPlateChild(e) == nodes[e].parent # 0 /\ nodes[nodes[e].parent].tag = "plate"

\* The range values r1..rn of the plate above element e, and its placeholder $(v).
RangeOf(e) == Split(Get(nodes, nodes[e].parent, "range"), ",")

PlaceholderOf(e) == Placeholder(Get(nodes, nodes[e].parent, "var"))

\* An attribute under a plate taken once per range value, any other attribute once:
\* <<element, position, i>>.
Instances(name) ==
    UNION { { <<site[1], site[2], i>> :
                i \in 1..(IF IsPlateChild(site[1]) THEN Len(RangeOf(site[1])) ELSE 1) } :
            site \in AttrSites(name) }

InstanceValue(t) ==
    IF IsPlateChild(t[1])
    THEN Replace(ValueAt(t), PlaceholderOf(t[1]), RangeOf(t[1])[t[3]])
    ELSE ValueAt(t)

\* Whether pattern occurs in string s.
Occurs(pattern, s) ==
    \E i \in 1..Len(s) :
        i + Len(pattern) - 1 <= Len(s) /\ SubSeq(s, i, i + Len(pattern) - 1) = pattern

---------------------------------------------------------------------------
(* C1 *)

\* C1: a run of validate_ids raises an error exactly when some identifier occurs more than once
\* among the collected definitions or some collected reference is not among the
\* collected definitions, and returns normally exactly when neither holds.
C1_RaisesExactlyOnDefect ==
    call.op = "validate_ids" =>
        LET data   == Data
            defect == \/ BagCardinality(data.id) > Cardinality(BagToSet(data.id))
                      \/ ~(BagToSet(data.idref) \subseteq BagToSet(data.id))
        IN  /\ (error.type = "ValueError" /\ pc = "raised") <=> defect
            /\ (error = NoError /\ pc = "done") <=> ~defect

\* Construction ended in validate_ids' error for a dangling reference, no identifier
\* being duplicated.
C1_Witness ==
    /\ call.op = "validate_ids"
    /\ pc = "raised"
    /\ error.type = "ValueError"
    /\ DuplicateIds = {}
    /\ DanglingRefs # {}

---------------------------------------------------------------------------
(* C3 *)

\* C3: in the data validate_ids collects, an id attribute on a direct child of a plate with variable v and range r1..rn
\* is registered as n definitions, one per range value, every occurrence of $(v)
\* replaced by the value; any other id attribute is registered once; so a reference
\* to one of the substituted identifiers is not dangling.
C3_PlateDefinitions ==
    call.op = "validate_ids" =>
        LET data     == Data
            dangling == DanglingOf(data)
            defs     == {<<t, InstanceValue(t)>> : t \in Instances("id")}
        IN  /\ BagCardinality(data.id) = Cardinality(defs)
            /\ \A d \in defs :
                  /\ CopiesIn(d[2], data.id) = Cardinality({u \in defs : u[2] = d[2]})
                  /\ d[2] \notin dangling
                  /\ (/\ IsPlateChild(d[1][1])
                      /\ ~Occurs(PlaceholderOf(d[1][1]), RangeOf(d[1][1])[d[1][3]]))
                         => ~Occurs(PlaceholderOf(d[1][1]), d[2])

\* Construction succeeded on a tree where a child of a plate over several values
\* declares an identifier that holds the placeholder twice, and another element refers
\* to one of the substituted identifiers.
C3_Witness ==
    /\ pc = "done"
    /\ \E site \in AttrSites("id") :
          /\ IsPlateChild(site[1])
          /\ ValueAt(site) = Templated
          /\ Len(RangeOf(site[1])) > 1
    /\ Substituted \in BagToSet(Data.idref)

---------------------------------------------------------------------------
(* C5 *)

---------------------------------------------------------------------------
(* C9 *)

\* C9 as stated: in the data validate_ids collects, every reference, an idref value or a sigil value without
\* its sigil, is registered exactly once and verbatim, under a plate too.
C9_ReferencesVerbatim ==
    call.op = "validate_ids" =>
        LET data == Data
        IN  /\ BagCardinality(data.idref)
                   = Cardinality(AttrSites("idref")) + Cardinality(SigilSites)
            /\ \A site \in AttrSites("idref") : ValueAt(site) \in BagToSet(data.idref)
            /\ \A site \in SigilSites : Tail(ValueAt(site)) \in BagToSet(data.idref)

\* C9 as amended: in the data validate_ids collects, a sigil-prefixed value is registered exactly once and verbatim, the
\* sigil stripped, also on a direct child of a plate; an idref attribute is registered
\* once and verbatim unless its element is a direct child of a plate, where it is
\* registered once per range value with the placeholder replaced, exactly as an id.
C9_OnlySigilReferencesVerbatim ==
    call.op = "validate_ids" =>
        LET data    == Data
            idrefs  == {<<t, InstanceValue(t)>> : t \in Instances("idref")}
            sigils  == {<<site, Tail(ValueAt(site))>> : site \in SigilSites}
        IN  /\ BagCardinality(data.idref) = Cardinality(idrefs) + Cardinality(sigils)
            /\ \A x \in BagToSet(data.idref) \cup {r[2] : r \in idrefs \cup sigils} :
                  CopiesIn(x, data.idref)
                      = Cardinality({r \in idrefs : r[2] = x})
                        + Cardinality({r \in sigils : r[2] = x})

\* Under one plate stand an element with a sigil reference and an element with an
\* idref, both holding the plate's placeholder.
C9_Witness ==
    /\ call.op = "validate_ids"
    /\ \E site \in SigilSites :
          /\ IsPlateChild(site[1])
          /\ Occurs(PlaceholderOf(site[1]), ValueAt(site))
    /\ \E site \in AttrSites("idref") :
          /\ IsPlateChild(site[1])
          /\ Occurs(PlaceholderOf(site[1]), ValueAt(site))
          /\ Len(RangeOf(site[1])) > 1

---------------------------------------------------------------------------
(* The steps of add_taxon_set *)

\* Whether element e of tree ns carries the attribute.
Has(ns, e, name) == \E j \in 1..Len(ns[e].attrib) : ns[e].attrib[j][1] = name

\* The step is a call of add_taxon_set (call' holds the step's arguments).
IsTaxonSetCall == call'.op = "add_taxon_set"

\* The element the call attached first, when it attached one.
FirstNew == Len(nodes) + 1

\* The step created a group: it attached an identifier-bearing taxonset.
CreatesGroup ==
    /\ IsTaxonSetCall
    /\ Len(nodes') > Len(nodes)
    /\ nodes'[FirstNew].tag = "taxonset"
    /\ Has(nodes', FirstNew, "id")

\* L lists exactly the members of S in strictly increasing order.
IsSortedListOf(L, S) ==
    /\ SetOf(L) = S
    /\ \A i \in 1..(Len(L) - 1) : StrLess(L[i], L[i + 1])

\* The identifier-bearing grouping elements of the tree.
GroupingNodes == {e \in 1..Len(nodes) : nodes[e].tag = "taxonset" /\ Has(nodes, e, "id")}

---------------------------------------------------------------------------
(* C2 *)

\* C2: a call whose de-duplicated member set equals the member set of an earlier
\* successful call attaches only a reference element, idref to the earlier group's
\* identifier, under its parent, and creates no identifier-bearing grouping element.
C2_RepeatedSetOnlyReferenced ==
    [][ (IsTaxonSetCall /\ \E g \in groups : SetOf(g.langs) = SetOf(call'.langs)) =>
            /\ groups' = groups
            /\ \E g \in groups :
                  /\ SetOf(g.langs) = SetOf(call'.langs)
                  /\ nodes' = Append(nodes, Element("taxonset", call'.parent,
                                                    << <<"idref", g.id>> >>))
      ]_vars

---------------------------------------------------------------------------
(* C4 *)

\* C4: when add_taxon_set creates a group, the encoding depends only on the number k
\* of distinct members.  With k > 3 the grouping element has one child, a plate whose
\* range is the sorted de-duplicated member list, with one placeholder child using
\* $(language); with 1 <= k <= 3 it has k taxon children, one per distinct member in
\* sorted order, and no plate.
C4_EncodingByMemberCount ==
    [][ CreatesGroup =>
          LET g       == FirstNew
              members == SetOf(call'.langs)
              k       == Cardinality(members)
              attr    == IF call'.define_taxa THEN "id" ELSE "idref"
              listed  == [i \in 1..(Len(nodes') - g) |-> nodes'[g + i].attrib[1][2]]
          IN  /\ SubSeq(nodes', 1, Len(nodes)) = nodes
              /\ nodes'[g].parent = call'.parent
              /\ k >= 1
              /\ k > 3 =>
                    /\ Len(nodes') = g + 2
                    /\ nodes'[g + 1].tag = "plate" /\ nodes'[g + 1].parent = g
                    /\ Get(nodes', g + 1, "var") = <<"language">>
                    /\ IsSortedListOf(Split(Get(nodes', g + 1, "range"), ","), members)
                    /\ nodes'[g + 2] = Element("taxon", g + 1,
                                               << <<attr, <<"$(", "language", ")">> >> >>)
              /\ k <= 3 =>
                    /\ Len(nodes') = g + k
                    /\ IsSortedListOf(listed, members)
                    /\ \A i \in 1..k :
                          nodes'[g + i] = Element("taxon", g, << <<attr, listed[i]>> >>)
      ]_vars

\* A call has just created a plate-encoded group from an unsorted collection.
C4_Witness ==
    /\ call.op = "add_taxon_set"
    /\ Len(call.langs) > 3
    /\ Len(nodes) > 2
    /\ nodes[Len(nodes) - 1].tag = "plate"
    /\ nodes[Len(nodes)].parent = Len(nodes) - 1
    /\ Has(nodes, Len(nodes) - 2, "id")

---------------------------------------------------------------------------
(* C6 *)

\* C6: add_taxon_set called with an empty member collection fails with the assertion
\* error before any element is created: the tree and the cache stay as they were.
C6_EmptyRejectedUntouched ==
    [][ (IsTaxonSetCall /\ call'.langs = <<>>) =>
            /\ error' = AssertionError
            /\ pc' = "raised"
            /\ nodes' = nodes
            /\ taxon_sets' = taxon_sets
            /\ groups' = groups
      ]_vars

\* A contributor's call with no member has failed on a tree that already holds groups.
C6_Witness ==
    /\ call.op = "add_taxon_set"
    /\ call.langs = <<>>
    /\ error = AssertionError
    /\ taxon_sets # <<>>
    /\ Len(nodes) > 1

---------------------------------------------------------------------------
(* C7 *)

\* C7, the clauses about the creating call: a group created for a single distinct
\* member equal to the requested label gets the identifier tx_<label>, which differs
\* from the member, and is cached under it; every other created group gets the label.
C7_RenameOnCreation ==
    [][ CreatesGroup =>
          LET members == SetOf(call'.langs)
              single  == members = {call'.label}
              id      == Get(nodes', FirstNew, "id")
          IN  /\ single => id = <<"tx_">> \o call'.label /\ id \notin members
              /\ ~single => id = call'.label
              /\ \E j \in 1..Len(taxon_sets') :
                    taxon_sets'[j][1] = id /\ SetOf(taxon_sets'[j][2]) = members
      ]_vars

\* C7, the clause about later calls: once a group was created under the renamed
\* identifier tx_<label> for the single member <label>, any later request for the same
\* member set attaches a reference to the renamed identifier.
C7_LaterRequestReferencesRenamed ==
    \A g \in groups :
        (g.id # g.label /\ pc = "assembling") =>
            LET r == add_taxon_set(nodes, taxon_sets, 1, g.label, g.langs, FALSE)
            IN  /\ r.nodes = Append(nodes, Element("taxonset", 1, << <<"idref", g.id>> >>))
                /\ r.taxon_sets = taxon_sets

---------------------------------------------------------------------------
(* C8 *)

\* C8: for either value of the validate flag, construction ends with the integrity
\* error or with a tree whose expanded identifiers are pairwise distinct and whose
\* references all resolve; no validation error arises while the tree is assembled.
C8_NoInvalidTreeCompletes ==
    /\ pc = "done" =>
          LET data == Data
          IN  /\ error = NoError
              /\ BagCardinality(data.id) = Cardinality(BagToSet(data.id))
              /\ BagToSet(data.idref) \subseteq BagToSet(data.id)
    /\ pc \in {"init", "root", "assembling"} => error = NoError
    /\ (pc = "raised" /\ call.op = "validate_ids") =>
          LET data == Data
          IN  /\ error.type = "ValueError"
              /\ \/ BagCardinality(data.id) > Cardinality(BagToSet(data.id))
                  \/ ~(BagToSet(data.idref) \subseteq BagToSet(data.id))

\* Construction with validate=False completed on a tree that holds contributed
\* elements and references.
C8_Witness ==
    /\ pc = "done"
    /\ ~validate
    /\ ops > 0
    /\ BagToSet(Data.idref) # {}

---------------------------------------------------------------------------
(* C10 *)

\* C10: a cache entry, once created, is never altered or removed: every (identifier,
\* member set) pair ever registered is still present with the same member set.
C10_EntriesNeverAltered ==
    \A g \in groups :
        \E j \in 1..Len(taxon_sets) : taxon_sets[j] = <<g.id, g.langs>>

---------------------------------------------------------------------------
(* add_run: the skeleton under the run element *)

\* The element a field of BeastXml holds, found by its identifier; 0 before it is made.
ById(ns, name) ==
    LET S == {e \in 1..Len(ns) : Has(ns, e, "id") /\ Get(ns, e, "id") = name}
    IN  IF S = {} THEN 0 ELSE CHOOSE e \in S : \A f \in S : e <= f

\* self.run, self.state, self.posterior, self.prior, self.likelihood.
run(ns) == ById(ns, <<"mcmc">>)

state(ns) == ById(ns, <<"state">>)

posterior(ns) == ById(ns, <<"posterior">>)

prior(ns) == ById(ns, <<"prior">>)

likelihood(ns) == ById(ns, <<"likelihood">>)

\* self.config.treeprior.tree_id.
tree_id == <<"Tree.t">>

\* Several elements attached in turn to one parent.
RECURSIVE AttachAll(_, _, _)
AttachAll(ns, parent, kinds) ==
    IF kinds = <<>> THEN ns
    ELSE AttachAll(SubElement(ns, parent, kinds[1].tag, kinds[1].attrib), parent, Tail(kinds))

\* The subsequences of seq with at most n elements.
Selections(seq, n) ==
    {SelectSeq([i \in 1..Len(seq) |-> IF i \in S THEN seq[i] ELSE [tag |-> "", attrib |-> <<>>]],
               LAMBDA k : k.tag # "") :
        S \in {T \in SUBSET (1..Len(seq)) : Cardinality(T) <= n}}

\* What the tree prior, the clocks and the models may declare under <state>, in the
\* order add_state calls them.
StateNodes ==
    << [tag |-> "tree", attrib |-> << <<"id", tree_id>> >>],
       [tag |-> "parameter", attrib |-> << <<"id", <<"pfx_", "b">> >> >>],
       [tag |-> "parameter", attrib |-> << <<"id", <<"pfx_", "c">> >> >>] >>

\* What the tree prior, the clocks and the models may attach as operators.
OperatorNodes ==
    << [tag |-> "operator", attrib |-> << <<"id", <<"treeScaler">> >>,
                                           <<"tree", <<"@">> \o tree_id>> >>] >>

\* What a model may attach under the likelihood.
LikelihoodNodes ==
    << [tag |-> "distribution", attrib |-> << <<"id", Substituted>> >>] >>

\* The calibrations of a configuration: none, or the clade "a" over some languages.
Calibrations == {<<>>} \cup {<<[clade |-> <<"a">>, langs |-> langs]>> : langs \in LangInputs}

\* Mutant of add_run_steps: the loggers added before the operators.
add_run_steps_loggers_early ==
    <<"add_state", "add_init", "add_distributions", "add_loggers", "add_operators">>

\* add_run: the calls that follow the creation of the run element, in order.
add_run_steps ==
    <<"add_state", "add_init", "add_distributions", "add_operators", "add_loggers">>

\* Where control stands once a step of add_run has returned.
step_after(step) ==
    LET k == CHOOSE i \in 1..Len(add_run_steps) : add_run_steps[i] = step
    IN  IF k = Len(add_run_steps) THEN "add_run_done" ELSE add_run_steps[k + 1]

\* add_standard_sampling_run: the <run> element is the attachment point.
add_standard_sampling_run ==
    /\ pc = "assembling"
    /\ nodes' = SubElement(nodes, 1, "run", << <<"id", <<"mcmc">> >>, <<"spec", <<"MCMC">> >> >>)
    /\ pc' = add_run_steps[1]
    /\ call' = Call("add_standard_sampling_run", 1, <<>>, <<>>, FALSE)
    /\ UNCHANGED <<validate, taxon_sets, error, groups, ops>>

\* add_path_sampling_run: the <mcmc> element nested in the path sampler's <run> is
\* the attachment point.
add_path_sampling_run ==
    /\ pc = "assembling"
    /\ LET ps_run == SubElement(nodes, 1, "run",
                                << <<"id", <<"ps">> >>,
                                   <<"spec", <<"beast.inference.PathSampler">> >> >>)
       IN  nodes' = SubElement(ps_run, Len(ps_run), "mcmc",
                               << <<"id", <<"mcmc">> >>, <<"spec", <<"MCMC">> >> >>)
    /\ pc' = add_run_steps[1]
    /\ call' = Call("add_path_sampling_run", 1, <<>>, <<>>, FALSE)
    /\ UNCHANGED <<validate, taxon_sets, error, groups, ops>>

\* add_state: the <state> element, then the state nodes of the contributors.
add_state ==
    /\ pc = "add_state"
    /\ \E parts \in Selections(StateNodes, MaxOps - ops) :
          LET made == SubElement(nodes, run(nodes), "state", << <<"id", <<"state">> >> >>)
          IN  /\ nodes' = AttachAll(made, Len(made), parts)
              /\ ops' = ops + Len(parts)
    /\ pc' = step_after("add_state")
    /\ call' = Call("add_state", run(nodes), <<>>, <<>>, FALSE)
    /\ UNCHANGED <<validate, taxon_sets, error, groups>>

\* add_init: the tree prior attaches its <init> element, if it has one.
add_init ==
    /\ pc = "add_init"
    /\ \/ nodes' = SubElement(nodes, run(nodes), "init", << <<"id", <<"startingTree">> >> >>)
       \/ nodes' = nodes
    /\ pc' = step_after("add_init")
    /\ call' = Call("add_init", run(nodes), <<>>, <<>>, FALSE)
    /\ UNCHANGED <<validate, taxon_sets, error, groups, ops>>

\* add_calibrations: per calibration an MRCAPrior under the prior and its taxon set.
RECURSIVE add_calibrations(_, _, _)
add_calibrations(ns, ts, cals) ==
    IF cals = <<>> THEN [nodes |-> ns, taxon_sets |-> ts, error |-> NoError, created |-> {}]
    ELSE LET cal == cals[1]
             cal_prior == SubElement(ns, prior(ns), "distribution",
                                     << <<"id", cal.clade \o <<"MRCA">> >>,
                                        <<"monophyletic", <<"true">> >>,
                                        <<"tree", <<"@">> \o tree_id>> >>)
             r == add_taxon_set(cal_prior, ts, Len(cal_prior), cal.clade, cal.langs, FALSE)
         IN  IF r.error # NoError THEN r
             ELSE LET rest == add_calibrations(r.nodes, r.taxon_sets, Tail(cals))
                  IN  [rest EXCEPT !.created = r.created \cup rest.created]

\* add_distributions: the posterior, add_prior (the prior and the calibrations),
\* add_likelihood (the likelihood and what the models put under it).
add_distributions ==
    /\ pc = "add_distributions"
    /\ \E cals \in Calibrations, parts \in Selections(LikelihoodNodes, MaxOps - ops) :
          /\ Len(cals) + Len(parts) <= MaxOps - ops
          /\ LET withPosterior == SubElement(nodes, run(nodes), "distribution",
                                             << <<"id", <<"posterior">> >> >>)
                 withPrior == SubElement(withPosterior, posterior(withPosterior), "distribution",
                                         << <<"id", <<"prior">> >> >>)
                 r == add_calibrations(withPrior, taxon_sets, cals)
                 withLikelihood == SubElement(r.nodes, posterior(r.nodes), "distribution",
                                              << <<"id", <<"likelihood">> >> >>)
             IN  /\ taxon_sets' = r.taxon_sets
                 /\ groups' = groups \cup r.created
                 /\ error' = r.error
                 /\ IF r.error # NoError
                    THEN /\ nodes' = r.nodes
                         /\ pc' = "raised"
                         /\ ops' = ops + Len(cals)
                    ELSE /\ nodes' = AttachAll(withLikelihood, Len(withLikelihood), parts)
                         /\ pc' = step_after("add_distributions")
                         /\ ops' = ops + Len(cals) + Len(parts)
    /\ call' = Call("add_distributions", run(nodes), <<>>, <<>>, FALSE)
    /\ UNCHANGED validate

\* The DeltaExchangeOperator add_operators makes for a clock with rate variation.
delta_exchanger(ns) ==
    LET delta == SubElement(ns, run(ns), "operator",
                            << <<"id", <<"featureClockRateDeltaExchanger">> >> >>)
        plate == SubElement(delta, Len(delta), "plate",
                            << <<"var", <<"rate">> >>,
                               <<"range", Join(<< <<"b">>, <<"c">> >>, ",")>> >>)
    IN  SubElement(plate, Len(plate), "parameter",
                   << <<"idref", <<"pfx_">> \o Placeholder(<<"rate">>)>> >>)

\* add_operators: the contributors' operators, then the delta exchangers.
add_operators ==
    /\ pc = "add_operators"
    /\ \E parts \in Selections(OperatorNodes, MaxOps - ops), rate_variation \in BOOLEAN :
          LET contributed == AttachAll(nodes, run(nodes), parts)
          IN  /\ nodes' = IF rate_variation THEN delta_exchanger(contributed) ELSE contributed
              /\ ops' = ops + Len(parts)
    /\ pc' = step_after("add_operators")
    /\ call' = Call("add_operators", run(nodes), <<>>, <<>>, FALSE)
    /\ UNCHANGED <<validate, taxon_sets, error, groups>>

\* xml.log(logger, idref=...) for each name.
RECURSIVE log_idrefs(_, _, _)
log_idrefs(ns, logger, names) ==
    IF names = <<>> THEN ns
    ELSE log_idrefs(SubElement(ns, logger, "log", << <<"idref", names[1]>> >>), logger,
                    Tail(names))

\* The distributions add_calibrations made, in order.
calibration_ids(ns) ==
    LET cs == SelectSeq(Children(ns, prior(ns)), LAMBDA c : Has(ns, c, "monophyletic"))
    IN  [i \in 1..Len(cs) |-> Get(ns, cs[i], "id")]

\* add_screen_logger.
add_screen_logger(ns, screenlog) ==
    IF ~screenlog THEN ns
    ELSE LET logger == SubElement(ns, run(ns), "logger", << <<"id", <<"screenlog">> >> >>)
             ess == SubElement(logger, Len(logger), "log",
                               << <<"arg", <<"@", "posterior">> >>, <<"id", <<"ESS.0">> >> >>)
         IN  log_idrefs(ess, Len(logger), << <<"prior">>, <<"likelihood">>, <<"posterior">> >>)

\* add_tracer_logger, with log_probabilities set when there is a trace log.
add_tracer_logger(ns, tracelog) ==
    IF ~tracelog THEN ns
    ELSE LET logger == SubElement(ns, run(ns), "logger", << <<"id", <<"tracelog">> >> >>)
             probabilities == log_idrefs(logger, Len(logger),
                                         << <<"prior">>, <<"likelihood">>, <<"posterior">> >>)
         IN  log_idrefs(probabilities, Len(logger), calibration_ids(ns))

\* add_tree_loggers with strict clocks: add_tree_logger() once.
add_tree_loggers(ns, log_trees) ==
    IF ~log_trees THEN ns
    ELSE LET logger == SubElement(ns, run(ns), "logger",
                                  << <<"mode", <<"tree">> >>, <<"id", <<"treeLogger">> >> >>)
         IN  SubElement(logger, Len(logger), "log",
                        << <<"id", <<"TreeLoggerWithMetaData">> >>,
                           <<"tree", <<"@">> \o tree_id>> >>)

\* add_loggers: the screen logger, the trace logger, the tree loggers.
add_loggers ==
    /\ pc = "add_loggers"
    /\ \E screenlog \in BOOLEAN, tracelog \in BOOLEAN, log_trees \in BOOLEAN :
          nodes' = add_tree_loggers(
                       add_tracer_logger(add_screen_logger(nodes, screenlog), tracelog),
                       log_trees)
    /\ pc' = step_after("add_loggers")
    /\ call' = Call("add_loggers", run(nodes), <<>>, <<>>, FALSE)
    /\ UNCHANGED <<validate, taxon_sets, error, groups, ops>>

\* The end of build_xml and of __init__, once add_run has returned.
build_xml_return ==
    /\ pc = "add_run_done"
    /\ error' = construction_error(nodes, validate)
    /\ pc' = IF error' = NoError THEN "done" ELSE "raised"
    /\ call' = Call("validate_ids", 0, <<>>, <<>>, FALSE)
    /\ UNCHANGED <<validate, nodes, taxon_sets, groups, ops>>

\* One build with add_run followed step by step.  What build_xml attaches at the
\* root before add_run (comments, maps, master data) lies outside the run element.
RunNext ==
    \/ build_xml_root
    \/ root_taxon_set
    \/ add_standard_sampling_run
    \/ add_path_sampling_run
    \/ add_state
    \/ add_init
    \/ add_distributions
    \/ add_operators
    \/ add_loggers
    \/ build_xml_return

RunSpec == Init /\ [][RunNext]_vars

---------------------------------------------------------------------------
(* C11 *)

\* The elements a step attaches directly under the run's attachment point.
AttachedUnderRun ==
    {e \in (Len(nodes) + 1)..Len(nodes') :
        run(nodes') # 0 /\ nodes'[e].parent = run(nodes')}

\* The children of the attachment point in ns, before element e, that carry tag.
EarlierUnderRun(ns, e, tag) ==
    {f \in 1..Len(ns) :
        f < e /\ run(ns) # 0 /\ ns[f].parent = run(ns) /\ ns[f].tag = tag}

\* The place of a section in the skeleton: state, init, distributions, operators,
\* loggers.
SectionRank(tag) ==
    CASE tag = "state" -> 1
      [] tag = "init" -> 2
      [] tag = "distribution" -> 3
      [] tag = "operator" -> 4
      [] tag = "logger" -> 5
      [] OTHER -> 0

\* C11: in both run modes the sections under the run's attachment point are attached
\* in the order state, init, distributions (prior before likelihood), operators,
\* loggers: a step attaches a distribution only when the state element exists, an
\* operator only when the posterior exists and no logger does, and nothing of an
\* earlier section after a later one.
C11_SectionsInFixedOrder ==
    [][ /\ \A e \in AttachedUnderRun :
              /\ SectionRank(nodes'[e].tag) > 0
              /\ \A f \in 1..(e - 1) :
                    nodes'[f].parent = run(nodes')
                        => SectionRank(nodes'[f].tag) <= SectionRank(nodes'[e].tag)
              /\ nodes'[e].tag = "distribution"
                    => EarlierUnderRun(nodes', e, "state") # {}
              /\ nodes'[e].tag = "operator"
                    => /\ posterior(nodes) # 0
                       /\ EarlierUnderRun(nodes', e, "logger") = {}
              /\ nodes'[e].tag = "logger"
                    => \A f \in AttachedUnderRun : nodes'[f].tag = "operator" => f < e
        /\ likelihood(nodes') # 0 /\ likelihood(nodes) = 0
              => /\ prior(nodes') # 0
                 /\ prior(nodes') < likelihood(nodes')
                 /\ nodes'[prior(nodes')].parent = posterior(nodes')
                 /\ nodes'[likelihood(nodes')].parent = posterior(nodes')
      ]_vars

\* A path-sampling build completed with a state, an init, distributions, an operator
\* and a logger under the nested <mcmc> element.
C11_Witness ==
    /\ pc = "done"
    /\ ById(nodes, <<"ps">>) # 0
    /\ nodes[run(nodes)].parent = ById(nodes, <<"ps">>)
    /\ \A tag \in {"state", "init", "distribution", "operator", "logger"} :
          EarlierUnderRun(nodes, Len(nodes) + 1, tag) # {}

---------------------------------------------------------------------------
(* C12 *)

\* The plates among the proper ancestors of element e.
RECURSIVE PlatesAbove(_)
PlatesAbove(e) ==
    IF nodes[e].parent = 0 THEN {}
    ELSE (IF nodes[nodes[e].parent].tag = "plate" THEN {nodes[e].parent} ELSE {})
         \cup PlatesAbove(nodes[e].parent)

\* What the value at an id attribute would become under the plates above its element.
SubstitutionsAt(site) ==
    UNION { { Replace(ValueAt(site), Placeholder(Get(nodes, p, "var")), r) :
                r \in SetOf(Split(Get(nodes, p, "range"), ",")) } :
            p \in PlatesAbove(site[1]) }

\* C12: plate expansion is shallow: an id attribute on an element whose parent is not
\* a plate is registered as exactly one definition, its value unchanged, also when
\* the element lies deeper under a plate and the value holds the plate's placeholder;
\* nothing is registered for the substituted values on its account.
C12_DeepDescendantsVerbatim ==
    call.op = "validate_ids" =>
        LET data == Data
            defs == {<<t, InstanceValue(t)>> : t \in Instances("id")}
        IN  \A site \in AttrSites("id") :
                ~IsPlateChild(site[1]) =>
                    /\ attribute_data(nodes, site[1], site[2]) =
                           [id |-> SetToBag({ValueAt(site)}), idref |-> EmptyBag]
                    /\ \A v \in {ValueAt(site)} \cup SubstitutionsAt(site) :
                          CopiesIn(v, data.id) = Cardinality({u \in defs : u[2] = v})

\* Construction succeeded on a tree where a grandchild of a plate declares an
\* identifier that holds the plate's placeholder.
C12_Witness ==
    /\ pc = "done"
    /\ \E site \in AttrSites("id") :
          /\ ~IsPlateChild(site[1])
          /\ IsPlateChild(nodes[site[1]].parent)
          /\ Occurs(PlaceholderOf(nodes[site[1]].parent), ValueAt(site))
          /\ SubstitutionsAt(site) # {ValueAt(site)}
          /\ CopiesIn(ValueAt(site), Data.id) = 1

---------------------------------------------------------------------------
(* Taxon sets over subsets of the root set's languages *)

\* The languages of a build: one, three (the threshold), five.
RootLanguages ==
    { << <<"a">> >>,
      << <<"b">>, <<"a">>, <<"c">> >>,
      << <<"e">>, <<"d">>, <<"c">>, <<"b">>, <<"a">> >> }

\* Language collections of calibrations: one, two, three, four and five languages.
CladeLanguages ==
    { << <<"a">> >>,
      << <<"b">>, <<"a">> >>,
      << <<"a">>, <<"b">>, <<"c">> >>,
      << <<"d">>, <<"c">>, <<"b">>, <<"a">> >>,
      << <<"a">>, <<"b">>, <<"c">>, <<"d">>, <<"e">> >> }

\* Clade names: two of their own, one that is also a language's name.
CladeLabels == { <<"x">>, <<"y">>, <<"a">> }

\* The languages the root set defines: the identifiers collected below its element.
RootMembers ==
    IF Len(nodes) < 2 THEN {}
    ELSE BagToSet(collect_over(nodes, Tail(Iter(nodes, 2))).id)

\* build_xml: "self.add_taxon_set(self.beast, 'taxa', languages, define_taxa=True)".
root_group ==
    /\ pc = "root"
    /\ \E langs \in RootLanguages :
          /\ taxon_set_added(add_taxon_set(nodes, taxon_sets, 1, <<"taxa">>, langs, TRUE))
          /\ call' = Call("add_taxon_set", 1, <<"taxa">>, langs, TRUE)
    /\ UNCHANGED <<validate, ops>>

\* add_calibrations: "self.add_taxon_set(cal_prior, taxonsetname, cal.langs)" for a
\* clade of languages of the build.
subset_group ==
    /\ pc = "assembling"
    /\ ops < MaxOps
    /\ \E parent \in TaxonSetParents(nodes), label \in CladeLabels,
          langs \in {l \in CladeLanguages : SetOf(l) \subseteq RootMembers} :
          /\ taxon_set_added(add_taxon_set(nodes, taxon_sets, parent, label, langs, FALSE))
          /\ call' = Call("add_taxon_set", parent, label, langs, FALSE)
    /\ ops' = ops + 1
    /\ UNCHANGED validate

GroupNext ==
    \/ build_xml_root
    \/ root_group
    \/ subset_group
    \/ finish

GroupSpec == Init /\ [][GroupNext]_vars

---------------------------------------------------------------------------
(* C13 *)

\* The identifiers of the groups created are distinct for distinct member sets and
\* none is a language of the root set.
GroupIdsDistinct ==
    /\ \A g \in groups, h \in groups : g.id = h.id => g.langs = h.langs
    /\ \A g \in groups : g.id \notin RootMembers

\* The idref attributes on the children of the plates.
PlateReferences == {t \in Instances("idref") : IsPlateChild(t[1])}

\* C13: once the root group is created with define_taxa=True over a non-empty set S,
\* calls of add_taxon_set with define_taxa=False over non-empty subsets of S, whose
\* group identifiers are distinct for distinct member sets and differ from every
\* member of S, give a tree on which validate_ids passes: no duplicate identifier, no
\* dangling reference, every member reference in a plate-encoded group a member the
\* root group defines.
C13_SubsetGroupsValidate ==
    (call.op = "validate_ids" /\ GroupIdsDistinct) =>
        LET data == Data
        IN  /\ error = NoError
            /\ pc = "done"
            /\ DuplicatesOf(data) = {}
            /\ DanglingOf(data) = {}
            /\ \A t \in PlateReferences : InstanceValue(t) \in RootMembers

\* Construction succeeded with a plate-encoded root group, a plate-encoded group over
\* four of its languages and a renamed single-language group.
C13_Witness ==
    /\ pc = "done"
    /\ GroupIdsDistinct
    /\ nodes[3].tag = "plate"
    /\ PlateReferences # {}
    /\ \E g \in groups : g.id = <<"tx_">> \o g.label

====
